---- MODULE Spec2Model ----
(***************************************************************************)
(* Model of the secure messenger: the relay server (express + socket.io +  *)
(* sqlite3, src/unnamed/part_000 lines 70-475) and the parts of the React  *)
(* Native client that the relay's contract depends on                      *)
(* (src/src/screens/HomeScreen.js, src/unnamed/part_001).                  *)
(***************************************************************************)
EXTENDS Integers, Sequences, FiniteSets, TLC

(***************************************************************************)
(* Bounds of the model.                                                     *)
(***************************************************************************)
MaxSockets == 3
MaxSends == 2
MaxClock == 1
MaxId == 2
MaxPublishes == 2
MaxExchanges == 2
MaxRows == 3
MaxRegistrations == 2
MaxAdds == 2
MaxLogins == 1

MaxCalls == 3

MaxOpens == 3

MaxEvents == 2

(***************************************************************************)
(* Principals (rows of the users table) and the values clients send.       *)
(***************************************************************************)
Users == {"alice", "bob"}

Texts == {"hi"}

NoSocket == 0

NoId == 0

Undefined == "undefined"

\* Key material is kept as <<v>>, and as <<>> where JavaScript has undefined
\* and SQL has NULL.
Absent == <<>>

Some(v) == <<v>>

MsgIds == 1..MaxId

VARIABLES
    sockets,         \* admitted server-side sockets, by handle (index)
    connectedUsers,  \* the Map userId -> socket handle (NoSocket: no entry)
    lastHandshake,   \* what the last handshake got back from io.use
    sends,           \* one record per ChatScreen.sendMessage call
    messages,        \* the messages table, in rowid order
    emitted,         \* `message` events pushed by the server, in order
    chatMessages,    \* what the ChatScreens display (messages state)
    clock,           \* wall clock, in seconds
    users,           \* the users table, by user id
    pre_keys,        \* the pre_keys table, in rowid order
    signed_pre_keys, \* the signed_pre_keys table, in rowid order
    exchanges,       \* POST /api/keys/exchange requests and their responses
    historyRes,      \* the last GET /api/messages/:contactId and its response
    sessions,        \* establishSecureSession runs of the clients
    registrations,   \* POST /api/auth/register requests and their responses
    contacts,        \* the contacts table, in rowid order
    adds,            \* POST /api/contacts/add requests and their responses
    contactsRes,     \* the last GET /api/contacts and its response
    logins,          \* POST /api/auth/login requests and their responses
    presented,       \* the token a client holds (AuthContext token state)
    provider,        \* the rest of the AuthProvider: socket state, sockets
    chat             \* the ChatScreen of that client and its socket listeners

relayVars == <<sockets, connectedUsers, lastHandshake, sends, messages,
               emitted, chatMessages, clock>>

keyVars == <<users, pre_keys, signed_pre_keys, exchanges>>

apiVars == <<historyRes, sessions, registrations>>

accountVars == <<contacts, adds, contactsRes, logins, presented>>

clientVars == <<provider, chat>>

vars == <<sockets, connectedUsers, lastHandshake, sends, messages, emitted,
          chatMessages, clock, users, pre_keys, signed_pre_keys, exchanges,
          historyRes, sessions, registrations, contacts, adds, contactsRes,
          logins, presented, provider,
          chat>>

(***************************************************************************)
(* Tokens.  jwt.sign produces a token that jwt.verify accepts until it     *)
(* expires; a forged token carries a payload but a wrong signature.        *)
(***************************************************************************)
NoToken == [kind |-> "none", id |-> "none"]

JwtSign(userId) == [kind |-> "valid", id |-> userId]

Tokens ==
    {NoToken} \cup [kind : {"valid", "forged", "expired"}, id : Users]

\* jwt.verify with the expiry check left out (ignoreExpiration).
JwtVerify_IgnoreExpiration(token) == token.kind \in {"valid", "expired"}

JwtVerify(token) == token.kind = "valid"

IoUse(token) ==
    IF token = NoToken
    THEN [ok |-> FALSE, err |-> "Authentication error", userId |-> "none"]
    ELSE IF JwtVerify(token)
         THEN [ok |-> TRUE, err |-> "", userId |-> token.id]
         ELSE [ok |-> FALSE, err |-> "Authentication error", userId |-> "none"]

(***************************************************************************)
(* Client-side encryption: CryptoJS.AES.encrypt with the device's key and  *)
(* a fresh random salt, wrapped as {type: 1, body}.                        *)
(***************************************************************************)
EncryptionKey(userId) == <<"key", userId>>

EncryptMessage(message, key, salt) ==
    [type |-> 1, body |-> <<"aes", key, salt, message>>]

(***************************************************************************)
(* decryptMessage: CryptoJS.AES.decrypt with the device's own key, then    *)
(* the bytes read as UTF-8.  With the key the body was encrypted under it  *)
(* returns the message; with any other key the bytes are noise, which is   *)
(* either not UTF-8 or empty (the call throws: Absent) or some other text. *)
(***************************************************************************)
DecryptMessage(encryptedMessage, key) ==
    IF encryptedMessage.body[2] = key
    THEN {Some(encryptedMessage.body[4])}
    ELSE {Absent, Some("noise")}

(***************************************************************************)
(* JSON.stringify of the {type, body} object: the text stored in the       *)
(* encrypted_message column.                                                *)
(***************************************************************************)
JSONStringify(obj) == <<"{", "type", obj.type, "body", obj.body, "}">>

(***************************************************************************)
(* The users table, by id.  The database file outlives the server process: *)
(* alice and bob have registered before, each with the password "secret1". *)
(***************************************************************************)
BcryptHash(password) == <<"bcrypt", password>>

UserRow(username, passwordHash) ==
    [username |-> username, password_hash |-> passwordHash,
     registration_id |-> Absent, identity_key |-> Absent]

RegisteredUsers == [u \in Users |-> UserRow(u, BcryptHash("secret1"))]

NoRequest ==
    [token |-> NoToken, contactId |-> Undefined, status |-> 0,
     message |-> "", messages |-> <<>>]

NoContactsRequest ==
    [userId |-> Undefined, status |-> 0, message |-> "", contacts |-> <<>>]

(***************************************************************************)
(* The client before anything happened: the AuthProvider has no socket,    *)
(* created none, its token effect ran with socket null (so its cleanup     *)
(* holds no socket) and no login or logout call is running; no ChatScreen  *)
(* is mounted and no `message` listener is registered.                     *)
(***************************************************************************)
NoProvider ==
    [socket |-> NoSocket, sockets |-> <<>>, cleanup |-> NoSocket,
     calls |-> <<>>]

NoChat ==
    [instance |-> 0, contact |-> Undefined, listeners |-> <<>>,
     loads |-> <<>>, received |-> <<>>, messages |-> <<>>]

InitClient ==
    /\ provider = NoProvider
    /\ chat = NoChat

InitAccounts ==
    /\ contacts = <<>>
    /\ adds = <<>>
    /\ contactsRes = NoContactsRequest
    /\ logins = <<>>
    /\ presented = NoToken
    /\ InitClient

Init ==
    /\ sockets = <<>>
    /\ connectedUsers = [u \in Users |-> NoSocket]
    /\ lastHandshake = ""
    /\ sends = <<>>
    /\ messages = <<>>
    /\ emitted = <<>>
    /\ chatMessages = <<>>
    /\ clock = 0
    /\ users = RegisteredUsers
    /\ pre_keys = <<>>
    /\ signed_pre_keys = <<>>
    /\ exchanges = <<>>
    /\ historyRes = NoRequest
    /\ sessions = <<>>
    /\ registrations = <<>>
    /\ InitAccounts

(***************************************************************************)
(* io.use + io.on('connection'): admission, then registration.             *)
(***************************************************************************)
RegistrySet(map, userId, handle) == [map EXCEPT ![userId] = handle]

Handshake(token) ==
    LET r == IoUse(token) IN
    /\ UNCHANGED keyVars
    /\ UNCHANGED apiVars
    /\ UNCHANGED accountVars
    /\ UNCHANGED clientVars
    /\ IF r.ok
       THEN /\ Len(sockets) < MaxSockets
            /\ sockets' = Append(sockets,
                   [userId |-> r.userId, token |-> token, state |-> "open"])
            /\ connectedUsers' =
                   RegistrySet(connectedUsers, r.userId, Len(sockets) + 1)
            /\ lastHandshake' = r.err
            /\ UNCHANGED <<sends, messages, emitted, chatMessages, clock>>
       ELSE /\ lastHandshake' = r.err
            /\ UNCHANGED <<sockets, connectedUsers, sends, messages, emitted,
                           chatMessages, clock>>

(***************************************************************************)
(* socket.on('disconnect').                                                 *)
(***************************************************************************)
\* A disconnect that leaves the Map as it is.
RegistryDelete_Never(map, userId, handle) == map

RegistryDelete(map, userId, handle) == [map EXCEPT ![userId] = NoSocket]

Disconnect(s) ==
    /\ s \in 1..Len(sockets)
    /\ sockets[s].state = "open"
    /\ sockets' = [sockets EXCEPT ![s].state = "closed"]
    /\ connectedUsers' =
           RegistryDelete(connectedUsers, sockets[s].userId, s)
    /\ UNCHANGED <<lastHandshake, sends, messages, emitted, chatMessages,
                   clock>>
    /\ UNCHANGED keyVars
    /\ UNCHANGED apiVars
    /\ UNCHANGED accountVars
    /\ UNCHANGED clientVars

(***************************************************************************)
(* ChatScreen.sendMessage on the device behind socket s: encrypt, emit     *)
(* `send_message`, append the message to the displayed conversation.  The  *)
(* chat is opened on a contact, and /api/contacts/add refuses to add the   *)
(* user itself, so contact.id differs from user.id.                         *)
(***************************************************************************)
SendMessage(s, contactId, newMessage) ==
    /\ s \in 1..Len(sockets)
    /\ sockets[s].state = "open"
    /\ contactId # sockets[s].userId
    /\ Len(sends) < MaxSends
    /\ LET userId == sockets[s].userId
           encryptedMessage ==
               EncryptMessage(newMessage, EncryptionKey(userId),
                              Len(sends) + 1)
       IN /\ sends' = Append(sends,
                 [sock |-> s,
                  recipientId |-> contactId,
                  encryptedMessage |-> encryptedMessage,
                  plainText |-> newMessage,
                  phase |-> "emitted",
                  messageId |-> NoId,
                  lookup |-> NoSocket])
          /\ chatMessages' = Append(chatMessages,
                 [device |-> s, send |-> Len(sends) + 1,
                  text |-> newMessage, senderId |-> userId])
    /\ UNCHANGED <<sockets, connectedUsers, lastHandshake, messages, emitted,
                   clock>>
    /\ UNCHANGED keyVars
    /\ UNCHANGED apiVars
    /\ UNCHANGED accountVars
    /\ UNCHANGED clientVars

(***************************************************************************)
(* socket.on('send_message'): pick the message id, queue the INSERT.       *)
(***************************************************************************)
InFlightBefore(i) ==
    {k \in 1..(i - 1) :
        sends[k].sock = sends[i].sock /\ sends[k].phase = "emitted"}

OnSendMessage(i, messageId) ==
    /\ i \in 1..Len(sends)
    /\ sends[i].phase = "emitted"
    /\ sockets[sends[i].sock].state = "open"
    /\ InFlightBefore(i) = {}
    /\ sends' = [sends EXCEPT ![i].phase = "queued",
                              ![i].messageId = messageId]
    /\ UNCHANGED <<sockets, connectedUsers, lastHandshake, messages, emitted,
                   chatMessages, clock>>
    /\ UNCHANGED keyVars
    /\ UNCHANGED apiVars
    /\ UNCHANGED accountVars
    /\ UNCHANGED clientVars

(***************************************************************************)
(* sqlite executes the queued INSERT INTO messages.  It fails on an I/O    *)
(* error and when the id violates the PRIMARY KEY constraint.  The db.run  *)
(* calls are issued outside db.serialize, so queued INSERTs execute in any *)
(* order.                                                                   *)
(***************************************************************************)
\* The INSERT given up when the socket of the send has gone.
InsertFails_WhenDisconnected(i, ioError) ==
    \/ ioError
    \/ \E k \in 1..Len(messages) : messages[k].id = sends[i].messageId
    \/ sockets[sends[i].sock].state = "closed"

InsertFails(i, ioError) ==
    \/ ioError
    \/ \E k \in 1..Len(messages) : messages[k].id = sends[i].messageId

\* The row with sender_id taken from the event's data, not from the socket.
MessageRow_SenderFromData(i) ==
    [id |-> sends[i].messageId,
     sender_id |-> sends[i].recipientId,
     recipient_id |-> sends[i].recipientId,
     encrypted_message |-> JSONStringify(sends[i].encryptedMessage),
     plain_text |-> sends[i].plainText,
     timestamp |-> clock]

MessageRow(i) ==
    [id |-> sends[i].messageId,
     sender_id |-> sockets[sends[i].sock].userId,
     recipient_id |-> sends[i].recipientId,
     encrypted_message |-> JSONStringify(sends[i].encryptedMessage),
     plain_text |-> sends[i].plainText,
     timestamp |-> clock]

\* The statement as INSERT OR REPLACE: a row with the same id is replaced.
DbRunInsert_OrReplace(i, ioError) ==
    /\ i \in 1..Len(sends)
    /\ sends[i].phase = "queued"
    /\ IF ioError
       THEN /\ sends' = [sends EXCEPT ![i].phase = "failed"]
            /\ UNCHANGED messages
       ELSE /\ sends' = [sends EXCEPT ![i].phase = "stored"]
            /\ LET Other(row) == row.id # sends[i].messageId
               IN messages' = Append(SelectSeq(messages, Other), MessageRow(i))
    /\ UNCHANGED <<sockets, connectedUsers, lastHandshake, emitted,
                   chatMessages, clock>>
    /\ UNCHANGED keyVars
    /\ UNCHANGED apiVars
    /\ UNCHANGED accountVars
    /\ UNCHANGED clientVars

DbRunInsert(i, ioError) ==
    /\ i \in 1..Len(sends)
    /\ sends[i].phase = "queued"
    /\ IF InsertFails(i, ioError)
       THEN /\ sends' = [sends EXCEPT ![i].phase = "failed"]
            /\ UNCHANGED messages
       ELSE /\ sends' = [sends EXCEPT ![i].phase = "stored"]
            /\ messages' = Append(messages, MessageRow(i))
    /\ UNCHANGED <<sockets, connectedUsers, lastHandshake, emitted,
                   chatMessages, clock>>
    /\ UNCHANGED keyVars
    /\ UNCHANGED apiVars
    /\ UNCHANGED accountVars
    /\ UNCHANGED clientVars

(***************************************************************************)
(* The INSERT's callback: on error log and return, otherwise look the      *)
(* recipient up in connectedUsers and push the `message` event.            *)
(***************************************************************************)
\* The lookup with the wrong key: the entry of some other principal.
RegistryGet_OtherKey(map, recipientId) ==
    map[CHOOSE u \in DOMAIN map : u # recipientId]

RegistryGet(map, recipientId) == map[recipientId]

\* The callback without its early return on err.
PushNow_IgnoreErr(err, recipientSocket) == recipientSocket # NoSocket

PushNow(err, recipientSocket) == ~err /\ recipientSocket # NoSocket

MessageEvent(i, recipientSocket) ==
    [to |-> recipientSocket,
     id |-> sends[i].messageId,
     senderId |-> sockets[sends[i].sock].userId,
     encryptedMessage |-> sends[i].encryptedMessage,
     timestamp |-> <<"iso", clock>>]

InsertCallback(i) ==
    /\ i \in 1..Len(sends)
    /\ sends[i].phase \in {"stored", "failed"}
    /\ LET err == sends[i].phase = "failed"
           recipientSocket == RegistryGet(connectedUsers, sends[i].recipientId)
       IN /\ sends' = [sends EXCEPT
                 ![i].phase = IF err THEN "dropped" ELSE "done",
                 ![i].lookup = IF err THEN NoSocket ELSE recipientSocket]
          /\ emitted' = IF PushNow(err, recipientSocket)
                        THEN Append(emitted, MessageEvent(i, recipientSocket))
                        ELSE emitted
    /\ UNCHANGED <<sockets, connectedUsers, lastHandshake, messages,
                   chatMessages, clock>>
    /\ UNCHANGED keyVars
    /\ UNCHANGED apiVars
    /\ UNCHANGED accountVars
    /\ UNCHANGED clientVars

(***************************************************************************)
(* Time passes (CURRENT_TIMESTAMP has one-second resolution).              *)
(***************************************************************************)
Tick ==
    /\ clock < MaxClock
    /\ clock' = clock + 1
    /\ UNCHANGED <<sockets, connectedUsers, lastHandshake, sends, messages,
                   emitted, chatMessages>>
    /\ UNCHANGED keyVars
    /\ UNCHANGED apiVars
    /\ UNCHANGED accountVars
    /\ UNCHANGED clientVars

(***************************************************************************)
(* GET /api/messages/:contactId, after authenticateToken set req.user:     *)
(* the rows of the pair in either direction, ORDER BY timestamp ASC.       *)
(* The table is scanned in rowid order and the sort keeps that order among *)
(* rows with equal timestamps.                                              *)
(***************************************************************************)
\* The WHERE clause with only the rows the caller sent.
HistoryWhere_SentOnly(row, userId, contactId) ==
    row.sender_id = userId /\ row.recipient_id = contactId

\* The WHERE clause without the contact: every row the caller is part of.
HistoryWhere_AnyContact(row, userId, contactId) ==
    row.sender_id = userId \/ row.recipient_id = userId

HistoryWhere(row, userId, contactId) ==
    \/ row.sender_id = userId /\ row.recipient_id = contactId
    \/ row.sender_id = contactId /\ row.recipient_id = userId

RECURSIVE InsertByTimestamp(_, _)
InsertByTimestamp(sorted, row) ==
    IF sorted = <<>>
    THEN <<row>>
    ELSE IF sorted[Len(sorted)].timestamp <= row.timestamp
         THEN Append(sorted, row)
         ELSE Append(InsertByTimestamp(SubSeq(sorted, 1, Len(sorted) - 1),
                                       row),
                     sorted[Len(sorted)])

RECURSIVE OrderByTimestamp(_)
OrderByTimestamp(rows) ==
    IF rows = <<>>
    THEN <<>>
    ELSE InsertByTimestamp(OrderByTimestamp(SubSeq(rows, 1, Len(rows) - 1)),
                           rows[Len(rows)])

History(userId, contactId) ==
    LET Match(row) == HistoryWhere(row, userId, contactId)
    IN OrderByTimestamp(SelectSeq(messages, Match))

Next ==
    \/ \E token \in Tokens : Handshake(token)
    \/ \E s \in 1..Len(sockets) : Disconnect(s)
    \/ \E s \in 1..Len(sockets), c \in Users, m \in Texts :
           SendMessage(s, c, m)
    \/ \E i \in 1..Len(sends), id \in MsgIds : OnSendMessage(i, id)
    \/ \E i \in 1..Len(sends), ioError \in BOOLEAN : DbRunInsert(i, ioError)
    \/ \E i \in 1..Len(sends) : InsertCallback(i)
    \/ Tick

Spec == Init /\ [][Next]_vars

(***************************************************************************)
(* authenticateToken: the bearer token check in front of every /api route  *)
(* but register and login.                                                  *)
(***************************************************************************)
\* The check telling the caller that the token has expired.
AuthenticateToken_TokenExpired(token) ==
    IF token = NoToken
    THEN [status |-> 401, message |-> "Access token required",
          user |-> Undefined]
    ELSE IF token.kind = "expired"
         THEN [status |-> 401, message |-> "Token expired",
               user |-> Undefined]
         ELSE IF ~JwtVerify(token)
              THEN [status |-> 403, message |-> "Invalid token",
                    user |-> Undefined]
              ELSE [status |-> 200, message |-> "", user |-> token.id]

AuthenticateToken(token) ==
    IF token = NoToken
    THEN [status |-> 401, message |-> "Access token required",
          user |-> Undefined]
    ELSE IF ~JwtVerify(token)
         THEN [status |-> 403, message |-> "Invalid token",
               user |-> Undefined]
         ELSE [status |-> 200, message |-> "", user |-> token.id]

(***************************************************************************)
(* publishBundle of the Key Bundle Store: append the one-time keys,        *)
(* replace the owner's signed pre-key, set the owner's identity key and    *)
(* registration id.                                                         *)
(***************************************************************************)
RowsOf(table, userId) ==
    LET Owned(row) == row.user_id = userId IN SelectSeq(table, Owned)

RowsNotOf(table, userId) ==
    LET Foreign(row) == row.user_id # userId IN SelectSeq(table, Foreign)

IdentityKey(userId) == <<"identity", userId>>

RECURSIVE Publishes(_)
Publishes(signedRows) ==
    IF signedRows = <<>>
    THEN 0
    ELSE signedRows[1].key_id + Publishes(Tail(signedRows))

PublishBundle(ownerId, oneTimeKeys) ==
    /\ Publishes(signed_pre_keys) < MaxPublishes
    /\ LET nextKeyId == Len(RowsOf(pre_keys, ownerId)) + 1
           signedKeyId ==
               IF RowsOf(signed_pre_keys, ownerId) = <<>>
               THEN 1
               ELSE RowsOf(signed_pre_keys, ownerId)[1].key_id + 1
           signedPublic == <<"signed", ownerId, signedKeyId>>
       IN /\ pre_keys' =
                 pre_keys \o
                 [k \in 1..oneTimeKeys |->
                     [user_id |-> ownerId,
                      key_id |-> nextKeyId + k - 1,
                      public_key |-> <<"onetime", ownerId, nextKeyId + k - 1>>]]
          /\ signed_pre_keys' =
                 Append(RowsNotOf(signed_pre_keys, ownerId),
                     [user_id |-> ownerId,
                      key_id |-> signedKeyId,
                      public_key |-> signedPublic,
                      signature |->
                          <<"sig", IdentityKey(ownerId), signedPublic>>])
          /\ users' = [users EXCEPT
                 ![ownerId].registration_id =
                     Some(<<"registration", ownerId>>),
                 ![ownerId].identity_key = Some(IdentityKey(ownerId))]
    /\ UNCHANGED exchanges
    /\ UNCHANGED relayVars
    /\ UNCHANGED apiVars
    /\ UNCHANGED accountVars
    /\ UNCHANGED clientVars

(***************************************************************************)
(* POST /api/keys/exchange.  The handler is a chain of three queries, each *)
(* issued from the callback of the one before.                              *)
(***************************************************************************)
DemoBundle == "demo-public-key-bundle"

NoKeys ==
    [registrationId |-> Absent, identityKey |-> Absent,
     preKeyId |-> Absent, preKeyPublic |-> Absent,
     signedPreKeyId |-> Absent, signedPreKeyPublic |-> Absent,
     signedPreKeySignature |-> Absent]

ExchangeRecord(userId, contactId, pc, status, message) ==
    [userId |-> userId, contactId |-> contactId, pc |-> pc,
     status |-> status, message |-> message,
     contact |-> [registration_id |-> Absent, identity_key |-> Absent],
     preKeys |-> <<>>, recipientKeys |-> NoKeys]

KeysExchange(token, contactId, publicKeyBundle) ==
    /\ Len(exchanges) < MaxExchanges
    /\ LET auth == AuthenticateToken(token) IN
       exchanges' = Append(exchanges,
           IF auth.status # 200
           THEN ExchangeRecord(Undefined, contactId, "done", auth.status,
                               auth.message)
           ELSE IF contactId = Undefined \/ publicKeyBundle = Undefined
                THEN ExchangeRecord(auth.user, contactId, "done", 400,
                         "Contact ID and public key bundle required")
                ELSE ExchangeRecord(auth.user, contactId, "users", 0, ""))
    /\ UNCHANGED <<users, pre_keys, signed_pre_keys>>
    /\ UNCHANGED relayVars
    /\ UNCHANGED apiVars
    /\ UNCHANGED accountVars
    /\ UNCHANGED clientVars

ExchangeGetUser(i) ==
    /\ i \in 1..Len(exchanges)
    /\ exchanges[i].pc = "users"
    /\ exchanges' =
           IF exchanges[i].contactId \in DOMAIN users
           THEN [exchanges EXCEPT ![i].pc = "pre_keys",
                                  ![i].contact = users[exchanges[i].contactId]]
           ELSE [exchanges EXCEPT ![i].pc = "done",
                                  ![i].status = 404,
                                  ![i].message = "Contact not found"]
    /\ UNCHANGED <<users, pre_keys, signed_pre_keys>>
    /\ UNCHANGED relayVars
    /\ UNCHANGED apiVars
    /\ UNCHANGED accountVars
    /\ UNCHANGED clientVars

Limit1(rows) == IF rows = <<>> THEN <<>> ELSE <<rows[1]>>

SelectPreKeys(table, contactId) == Limit1(RowsOf(table, contactId))

ExchangeAllPreKeys(i) ==
    /\ i \in 1..Len(exchanges)
    /\ exchanges[i].pc = "pre_keys"
    /\ exchanges' =
           [exchanges EXCEPT ![i].pc = "signed_pre_keys",
                             ![i].preKeys =
                                 SelectPreKeys(pre_keys, exchanges[i].contactId)]
    /\ UNCHANGED <<users, pre_keys, signed_pre_keys>>
    /\ UNCHANGED relayVars
    /\ UNCHANGED apiVars
    /\ UNCHANGED accountVars
    /\ UNCHANGED clientVars

Field(rows, name) == IF rows = <<>> THEN Absent ELSE Some(rows[1][name])

RecipientKeys(contact, preKeys, signedPreKeys) ==
    [registrationId |-> contact.registration_id,
     identityKey |-> contact.identity_key,
     preKeyId |-> Field(preKeys, "key_id"),
     preKeyPublic |-> Field(preKeys, "public_key"),
     signedPreKeyId |-> Field(signedPreKeys, "key_id"),
     signedPreKeyPublic |-> Field(signedPreKeys, "public_key"),
     signedPreKeySignature |-> Field(signedPreKeys, "signature")]

ExchangeAllSignedPreKeys(i) ==
    /\ i \in 1..Len(exchanges)
    /\ exchanges[i].pc = "signed_pre_keys"
    /\ exchanges' =
           [exchanges EXCEPT
               ![i].pc = "done",
               ![i].status = 200,
               ![i].message = "Key exchange successful",
               ![i].recipientKeys =
                   RecipientKeys(exchanges[i].contact, exchanges[i].preKeys,
                       Limit1(RowsOf(signed_pre_keys,
                                     exchanges[i].contactId)))]
    /\ UNCHANGED <<users, pre_keys, signed_pre_keys>>
    /\ UNCHANGED relayVars
    /\ UNCHANGED apiVars
    /\ UNCHANGED accountVars
    /\ UNCHANGED clientVars

(***************************************************************************)
(* establishSecureSession on the client that sent request i, from the      *)
(* response on: if the response is ok and carries recipientKeys, pass them *)
(* to processPreKeyBundle and report the session as established.           *)
(***************************************************************************)
ResponseOk(status) == status \in 200..299

ProcessPreKeyBundle(preKeyBundle, recipientAddress) == TRUE

RecipientAddress(contactId) == <<contactId, "device">>

EstablishSecureSession(i) ==
    /\ i \in 1..Len(exchanges)
    /\ exchanges[i].pc = "done"
    /\ \A k \in 1..Len(sessions) : sessions[k].exchange # i
    /\ sessions' = Append(sessions,
           [exchange |-> i,
            initiator |-> exchanges[i].userId,
            responder |-> exchanges[i].contactId,
            recipientKeys |-> exchanges[i].recipientKeys,
            state |->
                IF /\ ResponseOk(exchanges[i].status)
                   /\ ProcessPreKeyBundle(exchanges[i].recipientKeys,
                          RecipientAddress(exchanges[i].contactId))
                THEN "established"
                ELSE "none"])
    /\ UNCHANGED <<historyRes, registrations>>
    /\ UNCHANGED accountVars
    /\ UNCHANGED clientVars
    /\ UNCHANGED keyVars
    /\ UNCHANGED relayVars

NextKeys ==
    \/ \E u \in Users, n \in 0..1 : PublishBundle(u, n)
    \/ \E token \in Tokens, c \in Users \cup {"nobody", Undefined},
          b \in {DemoBundle, Undefined} : KeysExchange(token, c, b)
    \/ \E i \in 1..Len(exchanges) : ExchangeGetUser(i)
    \/ \E i \in 1..Len(exchanges) : ExchangeAllPreKeys(i)
    \/ \E i \in 1..Len(exchanges) : ExchangeAllSignedPreKeys(i)
    \/ \E i \in 1..Len(exchanges) : EstablishSecureSession(i)

SpecKeys == Init /\ [][NextKeys]_vars

(***************************************************************************)
(* The relay between two clients that have established sessions with each  *)
(* other: the state after alice and bob each ran establishSecureSession    *)
(* for the other, with no key published.                                    *)
(***************************************************************************)
AnsweredExchange(userId, contactId) ==
    [ExchangeRecord(userId, contactId, "done", 200, "Key exchange successful")
        EXCEPT !.contact = users[contactId],
               !.recipientKeys = RecipientKeys(users[contactId], <<>>, <<>>)]

EstablishedSession(i, userId, contactId) ==
    [exchange |-> i, initiator |-> userId, responder |-> contactId,
     recipientKeys |-> RecipientKeys(users[contactId], <<>>, <<>>),
     state |-> "established"]

EstablishedBothWays ==
    /\ exchanges = <<AnsweredExchange("alice", "bob"),
                     AnsweredExchange("bob", "alice")>>
    /\ sessions = <<EstablishedSession(1, "alice", "bob"),
                    EstablishedSession(2, "bob", "alice")>>

InitEstablished ==
    /\ sockets = <<>>
    /\ connectedUsers = [u \in Users |-> NoSocket]
    /\ lastHandshake = ""
    /\ sends = <<>>
    /\ messages = <<>>
    /\ emitted = <<>>
    /\ chatMessages = <<>>
    /\ clock = 0
    /\ users = RegisteredUsers
    /\ pre_keys = <<>>
    /\ signed_pre_keys = <<>>
    /\ EstablishedBothWays
    /\ historyRes = NoRequest
    /\ registrations = <<>>
    /\ InitAccounts

SpecEstablished == InitEstablished /\ [][Next]_vars

(***************************************************************************)
(* GET /api/messages/:contactId as a request against a messages table      *)
(* that three principals have sent into.  Rows are in rowid order; they    *)
(* were inserted as the clock advanced, so their timestamps do not         *)
(* decrease; ids are distinct.  The handler reads the table and writes     *)
(* nothing, so one request per table covers every request.                 *)
(***************************************************************************)
Principals == Users \cup {"carol"}

PrincipalTokens ==
    {NoToken} \cup [kind : {"valid", "forged", "expired"}, id : Principals]

StoredRow(k, senderId, recipientId, timestamp) ==
    [id |-> k, sender_id |-> senderId, recipient_id |-> recipientId,
     encrypted_message |->
         JSONStringify(EncryptMessage("hi", EncryptionKey(senderId), k)),
     plain_text |-> "hi", timestamp |-> timestamp]

Envelopes ==
    {e \in [sender_id : Principals, recipient_id : Principals,
            timestamp : 0..MaxClock] : e.sender_id # e.recipient_id}

MessageTables ==
    UNION {
        {[k \in 1..n |-> StoredRow(k, f[k].sender_id, f[k].recipient_id,
                                   f[k].timestamp)] :
            f \in {g \in [1..n -> Envelopes] :
                      \A k \in 1..(n - 1) :
                          g[k].timestamp <= g[k + 1].timestamp}} :
        n \in 0..MaxRows}

InitHistory ==
    /\ messages \in MessageTables
    /\ sockets = <<>>
    /\ connectedUsers = [u \in Users |-> NoSocket]
    /\ lastHandshake = ""
    /\ sends = <<>>
    /\ emitted = <<>>
    /\ chatMessages = <<>>
    /\ clock = MaxClock
    /\ users = RegisteredUsers
    /\ pre_keys = <<>>
    /\ signed_pre_keys = <<>>
    /\ exchanges = <<>>
    /\ historyRes = NoRequest
    /\ sessions = <<>>
    /\ registrations = <<>>
    /\ InitAccounts

GetMessages(token, contactId, ioError) ==
    /\ historyRes = NoRequest
    /\ LET auth == AuthenticateToken(token) IN
       historyRes' =
           IF auth.status # 200
           THEN [token |-> token, contactId |-> contactId,
                 status |-> auth.status, message |-> auth.message,
                 messages |-> <<>>]
           ELSE IF ioError
                THEN [token |-> token, contactId |-> contactId,
                      status |-> 500, message |-> "Database error",
                      messages |-> <<>>]
                ELSE [token |-> token, contactId |-> contactId,
                      status |-> 200, message |-> "",
                      messages |-> History(auth.user, contactId)]
    /\ UNCHANGED <<sessions, registrations>>
    /\ UNCHANGED accountVars
    /\ UNCHANGED clientVars
    /\ UNCHANGED relayVars
    /\ UNCHANGED keyVars

NextHistory ==
    \E token \in PrincipalTokens, contactId \in Principals \cup {"nobody"},
       ioError \in BOOLEAN : GetMessages(token, contactId, ioError)

SpecHistory == InitHistory /\ [][NextHistory]_vars

(***************************************************************************)
(* POST /api/auth/register: validation, then SELECT id FROM users WHERE    *)
(* username = ?, then (from its callback, after bcrypt.hash) the INSERT.   *)
(* Requests are served concurrently: the steps of two requests interleave. *)
(***************************************************************************)
Missing(value) == value = Undefined \/ value = ""

\* isLength with exclusive bounds.
IsLength_Exclusive(str, min, max) == Len(str) > min /\ Len(str) < max

IsLength(str, min, max) == Len(str) >= min /\ Len(str) <= max

LongUsername == "abcdefghijklmnopqrstuvwxyz01234"

LongestUsername == "abcdefghijklmnopqrstuvwxyz0123"

Usernames ==
    {"carol", "alice", "al", "eve", LongestUsername, LongUsername, Undefined}

Passwords == {"secret1", "123456", "12345", Undefined}

NewUserIds == {"user_1", "user_2"}

RegistrationRecord(username, password, pc, status, message) ==
    [username |-> username, password |-> password, pc |-> pc,
     status |-> status, message |-> message, err |-> "",
     token |-> NoToken, userId |-> Undefined]

Register(username, password) ==
    /\ Len(registrations) < MaxRegistrations
    /\ registrations' = Append(registrations,
           IF Missing(username) \/ Missing(password)
           THEN RegistrationRecord(username, password, "done", 400,
                    "Username and password required")
           ELSE IF ~IsLength(username, 3, 30)
                THEN RegistrationRecord(username, password, "done", 400,
                         "Username must be 3-30 characters")
                ELSE IF Len(password) < 6
                     THEN RegistrationRecord(username, password, "done", 400,
                              "Password must be at least 6 characters")
                     ELSE RegistrationRecord(username, password, "select",
                              0, ""))
    /\ UNCHANGED <<historyRes, sessions>>
    /\ UNCHANGED accountVars
    /\ UNCHANGED clientVars
    /\ UNCHANGED keyVars
    /\ UNCHANGED relayVars

UsernameTaken(username) ==
    \E id \in DOMAIN users : users[id].username = username

RegisterGetUser(i, ioError) ==
    /\ i \in 1..Len(registrations)
    /\ registrations[i].pc = "select"
    /\ registrations' =
           IF ioError
           THEN [registrations EXCEPT ![i].pc = "done",
                                      ![i].status = 500,
                                      ![i].err = "SQLITE_IOERR",
                                      ![i].message = "Database error"]
           ELSE IF UsernameTaken(registrations[i].username)
                THEN [registrations EXCEPT
                         ![i].pc = "done",
                         ![i].status = 400,
                         ![i].message = "Username already exists"]
                ELSE [registrations EXCEPT ![i].pc = "insert"]
    /\ UNCHANGED <<historyRes, sessions>>
    /\ UNCHANGED accountVars
    /\ UNCHANGED clientVars
    /\ UNCHANGED keyVars
    /\ UNCHANGED relayVars

InsertUserError(err) == [status |-> 500, message |-> "Error creating user"]

RegisterInsertUser(i, userId, ioError) ==
    /\ i \in 1..Len(registrations)
    /\ registrations[i].pc = "insert"
    /\ LET err == IF ioError
                  THEN "SQLITE_IOERR"
                  ELSE IF \/ userId \in DOMAIN users
                          \/ UsernameTaken(registrations[i].username)
                       THEN "SQLITE_CONSTRAINT"
                       ELSE ""
       IN IF err # ""
          THEN /\ registrations' =
                      [registrations EXCEPT
                          ![i].pc = "done",
                          ![i].err = err,
                          ![i].status = InsertUserError(err).status,
                          ![i].message = InsertUserError(err).message]
               /\ UNCHANGED users
          ELSE /\ users' =
                      [id \in DOMAIN users \cup {userId} |->
                          IF id = userId
                          THEN UserRow(registrations[i].username,
                                   BcryptHash(registrations[i].password))
                          ELSE users[id]]
               /\ registrations' =
                      [registrations EXCEPT
                          ![i].pc = "done",
                          ![i].status = 200,
                          ![i].message = "User created successfully",
                          ![i].token = JwtSign(userId),
                          ![i].userId = userId]
    /\ UNCHANGED <<pre_keys, signed_pre_keys, exchanges>>
    /\ UNCHANGED <<historyRes, sessions>>
    /\ UNCHANGED accountVars
    /\ UNCHANGED clientVars
    /\ UNCHANGED relayVars

(***************************************************************************)
(* POST /api/auth/login: SELECT * FROM users WHERE username = ?, then      *)
(* bcrypt.compare of the password with the row's hash, then jwt.sign.      *)
(***************************************************************************)
NoUser == "none"

UserByUsername(username) ==
    IF \E id \in DOMAIN users : users[id].username = username
    THEN CHOOSE id \in DOMAIN users : users[id].username = username
    ELSE NoUser

LoginRecord(username, password, pc, status, message) ==
    [username |-> username, password |-> password, pc |-> pc,
     status |-> status, message |-> message, err |-> "",
     token |-> NoToken, userId |-> Undefined]

Login(username, password) ==
    /\ Len(logins) < MaxLogins
    /\ logins' = Append(logins,
           IF Missing(username) \/ Missing(password)
           THEN LoginRecord(username, password, "done", 400,
                    "Username and password required")
           ELSE LoginRecord(username, password, "select", 0, ""))
    /\ UNCHANGED <<contacts, adds, contactsRes, presented>>
    /\ UNCHANGED clientVars
    /\ UNCHANGED relayVars
    /\ UNCHANGED keyVars
    /\ UNCHANGED apiVars

\* bcrypt.compare accepting every password.
BcryptCompare_Always(password, passwordHash) == TRUE

BcryptCompare(password, passwordHash) == passwordHash = BcryptHash(password)

LoginGetUser(i, ioError) ==
    /\ i \in 1..Len(logins)
    /\ logins[i].pc = "select"
    /\ LET userId == UserByUsername(logins[i].username) IN
       logins' =
           IF ioError
           THEN [logins EXCEPT ![i].pc = "done",
                               ![i].status = 500,
                               ![i].err = "SQLITE_IOERR",
                               ![i].message = "Database error"]
           ELSE IF userId = NoUser
                THEN [logins EXCEPT ![i].pc = "done",
                                    ![i].status = 401,
                                    ![i].message = "Invalid credentials"]
                ELSE IF ~BcryptCompare(logins[i].password,
                                       users[userId].password_hash)
                     THEN [logins EXCEPT
                              ![i].pc = "done",
                              ![i].status = 401,
                              ![i].message = "Invalid credentials"]
                     ELSE [logins EXCEPT
                              ![i].pc = "done",
                              ![i].status = 200,
                              ![i].message = "Login successful",
                              ![i].token = JwtSign(userId),
                              ![i].userId = userId]
    /\ UNCHANGED <<contacts, adds, contactsRes, presented>>
    /\ UNCHANGED clientVars
    /\ UNCHANGED relayVars
    /\ UNCHANGED keyVars
    /\ UNCHANGED apiVars

NextAuth ==
    \/ \E username \in Usernames, password \in Passwords :
           Register(username, password)
    \/ \E i \in 1..Len(registrations), ioError \in BOOLEAN :
           RegisterGetUser(i, ioError)
    \/ \E i \in 1..Len(registrations), userId \in NewUserIds,
          ioError \in BOOLEAN : RegisterInsertUser(i, userId, ioError)
    \/ \E username \in Usernames, password \in Passwords :
           Login(username, password)
    \/ \E i \in 1..Len(logins), ioError \in BOOLEAN : LoginGetUser(i, ioError)

SpecAuth == Init /\ [][NextAuth]_vars

(***************************************************************************)
(* The contact routes.  Three principals are registered.  jwt.verify checks *)
(* signature and expiry only (JWT_SECRET has a default in the source), so  *)
(* a valid token may name an id that has no row in users: mallory.         *)
(***************************************************************************)
PrincipalRows == [u \in Principals |-> UserRow(u, BcryptHash("secret1"))]

ContactTokens == PrincipalTokens \cup {JwtSign("mallory")}

ContactUsernames == Principals \cup {"mallory", Undefined}

ContactRowIds == 1..MaxAdds

InitContacts ==
    /\ sockets = <<>>
    /\ connectedUsers = [u \in Users |-> NoSocket]
    /\ lastHandshake = ""
    /\ sends = <<>>
    /\ messages = <<>>
    /\ emitted = <<>>
    /\ chatMessages = <<>>
    /\ clock = 0
    /\ users = PrincipalRows
    /\ pre_keys = <<>>
    /\ signed_pre_keys = <<>>
    /\ exchanges = <<>>
    /\ historyRes = NoRequest
    /\ sessions = <<>>
    /\ registrations = <<>>
    /\ InitAccounts

AddRecord(userId, username, pc, status, message) ==
    [userId |-> userId, username |-> username, pc |-> pc,
     status |-> status, message |-> message, err |-> "",
     contactId |-> NoUser]

\* POST /api/contacts/add up to the SELECT being issued.
ContactsAdd(token, username) ==
    /\ Len(adds) < MaxAdds
    /\ LET auth == AuthenticateToken(token) IN
       adds' = Append(adds,
           IF auth.status # 200
           THEN AddRecord(Undefined, username, "done", auth.status,
                          auth.message)
           ELSE IF Missing(username)
                THEN AddRecord(auth.user, username, "done", 400,
                               "Username required")
                ELSE AddRecord(auth.user, username, "select", 0, ""))
    /\ UNCHANGED <<contacts, contactsRes, logins, presented>>
    /\ UNCHANGED clientVars
    /\ UNCHANGED relayVars
    /\ UNCHANGED keyVars
    /\ UNCHANGED apiVars

\* The self check with the comparison left out.
IsSelf_Never(contactId, userId) == FALSE

IsSelf(contactId, userId) == contactId = userId

\* The callback of SELECT id, username FROM users WHERE username = ?.
ContactsAddGetUser(i, ioError) ==
    /\ i \in 1..Len(adds)
    /\ adds[i].pc = "select"
    /\ LET contactId == UserByUsername(adds[i].username) IN
       adds' =
           IF ioError
           THEN [adds EXCEPT ![i].pc = "done",
                             ![i].status = 500,
                             ![i].err = "SQLITE_IOERR",
                             ![i].message = "Database error"]
           ELSE IF contactId = NoUser
                THEN [adds EXCEPT ![i].pc = "done",
                                  ![i].status = 404,
                                  ![i].message = "User not found"]
                ELSE IF IsSelf(contactId, adds[i].userId)
                     THEN [adds EXCEPT
                              ![i].pc = "done",
                              ![i].status = 400,
                              ![i].message =
                                  "Cannot add yourself as a contact"]
                     ELSE [adds EXCEPT ![i].pc = "insert",
                                       ![i].contactId = contactId]
    /\ UNCHANGED <<contacts, contactsRes, logins, presented>>
    /\ UNCHANGED clientVars
    /\ UNCHANGED relayVars
    /\ UNCHANGED keyVars
    /\ UNCHANGED apiVars

\* The INSERT's callback answering every error alike.
InsertContactError_NoMapping(err) ==
    [status |-> 500, message |-> "Error adding contact"]

InsertContactError(err) ==
    IF err = "SQLITE_CONSTRAINT"
    THEN [status |-> 400, message |-> "Contact already exists"]
    ELSE [status |-> 500, message |-> "Error adding contact"]

\* INSERT INTO contacts with the edge added for the contact as well.
InsertedEdges_BothWays(rowId, userId, contactId) ==
    <<[id |-> rowId, user_id |-> userId, contact_id |-> contactId],
      [id |-> rowId + MaxAdds, user_id |-> contactId, contact_id |-> userId]>>

InsertedEdges(rowId, userId, contactId) ==
    <<[id |-> rowId, user_id |-> userId, contact_id |-> contactId]>>

\* INSERT INTO contacts (id, user_id, contact_id) and its callback: the id
\* is PRIMARY KEY and (user_id, contact_id) is UNIQUE.
ContactsAddInsert(i, rowId, ioError) ==
    /\ i \in 1..Len(adds)
    /\ adds[i].pc = "insert"
    /\ LET err ==
               IF ioError
               THEN "SQLITE_IOERR"
               ELSE IF \E k \in 1..Len(contacts) :
                           \/ contacts[k].id = rowId
                           \/ /\ contacts[k].user_id = adds[i].userId
                              /\ contacts[k].contact_id = adds[i].contactId
                    THEN "SQLITE_CONSTRAINT"
                    ELSE ""
       IN IF err # ""
          THEN /\ adds' = [adds EXCEPT
                      ![i].pc = "done",
                      ![i].err = err,
                      ![i].status = InsertContactError(err).status,
                      ![i].message = InsertContactError(err).message]
               /\ UNCHANGED contacts
          ELSE /\ contacts' =
                      contacts \o InsertedEdges(rowId, adds[i].userId,
                                                adds[i].contactId)
               /\ adds' = [adds EXCEPT
                      ![i].pc = "done",
                      ![i].status = 200,
                      ![i].message = "Contact added successfully"]
    /\ UNCHANGED <<contactsRes, logins, presented>>
    /\ UNCHANGED clientVars
    /\ UNCHANGED relayVars
    /\ UNCHANGED keyVars
    /\ UNCHANGED apiVars

(***************************************************************************)
(* GET /api/contacts: contacts JOIN users WHERE c.user_id = ?, with no     *)
(* ORDER BY.  SQL leaves the order of the rows to the query plan (rowid    *)
(* scan, or the UNIQUE(user_id, contact_id) index, which is ordered by     *)
(* contact id): any order of the matching rows can come back.              *)
(***************************************************************************)
ContactsJoinUsers(userId) ==
    LET Matches(row) ==
            row.user_id = userId /\ row.contact_id \in DOMAIN users
        rows == SelectSeq(contacts, Matches)
    IN [k \in 1..Len(rows) |->
           [id |-> rows[k].contact_id,
            username |-> users[rows[k].contact_id].username]]

ContactListings(userId) ==
    LET rows == ContactsJoinUsers(userId) IN
    {[k \in 1..Len(rows) |-> rows[p[k]]] :
        p \in Permutations(1..Len(rows))}

GetContacts(token, ioError) ==
    /\ LET auth == AuthenticateToken(token) IN
       IF auth.status # 200
       THEN contactsRes' = [userId |-> Undefined, status |-> auth.status,
                            message |-> auth.message, contacts |-> <<>>]
       ELSE IF ioError
            THEN contactsRes' = [userId |-> auth.user, status |-> 500,
                                 message |-> "Database error",
                                 contacts |-> <<>>]
            ELSE \E listing \in ContactListings(auth.user) :
                     contactsRes' = [userId |-> auth.user, status |-> 200,
                                     message |-> "", contacts |-> listing]
    /\ UNCHANGED <<contacts, adds, logins, presented>>
    /\ UNCHANGED clientVars
    /\ UNCHANGED relayVars
    /\ UNCHANGED keyVars
    /\ UNCHANGED apiVars

NextContacts ==
    \/ \E token \in ContactTokens, username \in ContactUsernames :
           ContactsAdd(token, username)
    \/ \E i \in 1..Len(adds), ioError \in BOOLEAN :
           ContactsAddGetUser(i, ioError)
    \/ \E i \in 1..Len(adds), rowId \in ContactRowIds, ioError \in BOOLEAN :
           ContactsAddInsert(i, rowId, ioError)
    \/ \E token \in ContactTokens, ioError \in BOOLEAN :
           GetContacts(token, ioError)

SpecContacts == InitContacts /\ [][NextContacts]_vars

(***************************************************************************)
(* A client that holds one token (AuthContext keeps it in its token state  *)
(* and in SecureStore) and presents it on both surfaces: as the bearer     *)
(* token of its HTTP requests and as auth.token of its socket handshakes.  *)
(***************************************************************************)
InitVerify ==
    /\ sockets = <<>>
    /\ connectedUsers = [u \in Users |-> NoSocket]
    /\ lastHandshake = ""
    /\ sends = <<>>
    /\ messages = <<>>
    /\ emitted = <<>>
    /\ chatMessages = <<>>
    /\ clock = 0
    /\ users = RegisteredUsers
    /\ pre_keys = <<>>
    /\ signed_pre_keys = <<>>
    /\ exchanges = <<>>
    /\ historyRes = NoRequest
    /\ sessions = <<>>
    /\ registrations = <<>>
    /\ contacts = <<>>
    /\ adds = <<>>
    /\ contactsRes = NoContactsRequest
    /\ logins = <<>>
    /\ presented \in Tokens
    /\ InitClient

NextVerify ==
    \/ Handshake(presented)
    \/ \E s \in 1..Len(sockets) : Disconnect(s)
    \/ \E contactId \in Users \cup {"nobody"}, ioError \in BOOLEAN :
           GetMessages(presented, contactId, ioError)
    \/ \E ioError \in BOOLEAN : GetContacts(presented, ioError)

SpecVerify == InitVerify /\ [][NextVerify]_vars

(***************************************************************************)
(* The AuthProvider of one client.  `presented` is its token state,        *)
(* provider.socket its socket state, provider.sockets the sockets io()     *)
(* created, provider.cleanup the socket that the closure of the [token]    *)
(* effect's cleanup holds (the socket state of the render in which the     *)
(* effect last ran), provider.calls the login, register and logout calls   *)
(* and the loadStoredAuth of the mount.  A state update, the render that   *)
(* follows and the effects of that render are one step.                    *)
(***************************************************************************)
ClientTokens == {JwtSign(u) : u \in Users}

ProviderCall(op, token, socket) ==
    [op |-> op, token |-> token, socket |-> socket, pc |-> "pending"]

InitProvider ==
    /\ sockets = <<>>
    /\ connectedUsers = [u \in Users |-> NoSocket]
    /\ lastHandshake = ""
    /\ sends = <<>>
    /\ messages = <<>>
    /\ emitted = <<>>
    /\ chatMessages = <<>>
    /\ clock = 0
    /\ users = RegisteredUsers
    /\ pre_keys = <<>>
    /\ signed_pre_keys = <<>>
    /\ exchanges = <<>>
    /\ historyRes = NoRequest
    /\ sessions = <<>>
    /\ registrations = <<>>
    /\ contacts = <<>>
    /\ adds = <<>>
    /\ contactsRes = NoContactsRequest
    /\ logins = <<>>
    /\ presented = NoToken
    /\ \E storedToken \in {NoToken} \cup ClientTokens :
          provider = [NoProvider EXCEPT
                        !.calls = <<ProviderCall("restore", storedToken,
                                                 NoSocket)>>]
    /\ chat = NoChat

\* socket.disconnect() on the socket a closure holds.
SocketDisconnect(created, socket) ==
    IF socket = NoSocket
    THEN created
    ELSE [created EXCEPT ![socket].connected = FALSE]

\* connectSocket of a render whose socket state is `socket`.
ConnectSocket(p, socket, token) ==
    IF socket # NoSocket
    THEN p
    ELSE [p EXCEPT !.sockets = Append(p.sockets,
                                      [token |-> token, connected |-> TRUE]),
                   !.socket = Len(p.sockets) + 1]

\* disconnectSocket of a render whose socket state is `socket`.
DisconnectSocket(p, socket) ==
    IF socket = NoSocket
    THEN p
    ELSE [p EXCEPT !.sockets = SocketDisconnect(p.sockets, socket),
                   !.socket = NoSocket]

\* useEffect(..., [token]) of the render that follows a token update: the
\* cleanup of the previous run, then the body, both with the closures of
\* their own render.
TokenEffect(p, oldToken, newToken) ==
    IF newToken = oldToken
    THEN p
    ELSE LET cleaned == DisconnectSocket(p, p.cleanup)
             ran == IF newToken # NoToken
                    THEN ConnectSocket(cleaned, p.socket, newToken)
                    ELSE DisconnectSocket(cleaned, p.socket)
         IN [ran EXCEPT !.cleanup = p.socket]

\* login(username, password) and register(username, password) are called.
ProviderLogin(userId) ==
    /\ Len(provider.calls) < MaxCalls
    /\ provider' = [provider EXCEPT
           !.calls = Append(provider.calls,
                            ProviderCall("login", JwtSign(userId), NoSocket))]
    /\ UNCHANGED <<presented, chat>>
    /\ UNCHANGED <<contacts, adds, contactsRes, logins>>
    /\ UNCHANGED relayVars
    /\ UNCHANGED keyVars
    /\ UNCHANGED apiVars

\* The response arrives (or loadStoredAuth has read SecureStore): with
\* response.ok and the SecureStore writes done, setToken and setUser.
ProviderLoginReturns(i, ok) ==
    /\ i \in 1..Len(provider.calls)
    /\ provider.calls[i].pc = "pending"
    /\ provider.calls[i].op \in {"login", "restore"}
    /\ LET token == provider.calls[i].token
           returned == [provider EXCEPT !.calls[i].pc = "done"]
       IN IF ok /\ token # NoToken
          THEN /\ presented' = token
               /\ provider' = TokenEffect(returned, presented, token)
          ELSE /\ presented' = presented
               /\ provider' = returned
    /\ UNCHANGED chat
    /\ UNCHANGED <<contacts, adds, contactsRes, logins>>
    /\ UNCHANGED relayVars
    /\ UNCHANGED keyVars
    /\ UNCHANGED apiVars

\* logout() is called: its disconnectSocket is the one of the current render.
ProviderLogout ==
    /\ Len(provider.calls) < MaxCalls
    /\ provider' = [provider EXCEPT
           !.calls = Append(provider.calls,
                            ProviderCall("logout", NoToken, provider.socket))]
    /\ UNCHANGED <<presented, chat>>
    /\ UNCHANGED <<contacts, adds, contactsRes, logins>>
    /\ UNCHANGED relayVars
    /\ UNCHANGED keyVars
    /\ UNCHANGED apiVars

\* The SecureStore deletes are done: setToken(null), setUser(null),
\* disconnectSocket(); when a delete throws, nothing of this happens.
ProviderLogoutReturns(i, ok) ==
    /\ i \in 1..Len(provider.calls)
    /\ provider.calls[i].pc = "pending"
    /\ provider.calls[i].op = "logout"
    /\ LET returned == [provider EXCEPT !.calls[i].pc = "done"]
       IN IF ok
          THEN /\ presented' = NoToken
               /\ provider' =
                      TokenEffect(DisconnectSocket(returned,
                                                   provider.calls[i].socket),
                                  presented, NoToken)
          ELSE /\ presented' = presented
               /\ provider' = returned
    /\ UNCHANGED chat
    /\ UNCHANGED <<contacts, adds, contactsRes, logins>>
    /\ UNCHANGED relayVars
    /\ UNCHANGED keyVars
    /\ UNCHANGED apiVars

NextProvider ==
    \/ \E userId \in Users : ProviderLogin(userId)
    \/ \E i \in 1..Len(provider.calls), ok \in BOOLEAN :
           ProviderLoginReturns(i, ok)
    \/ ProviderLogout
    \/ \E i \in 1..Len(provider.calls), ok \in BOOLEAN :
           ProviderLogoutReturns(i, ok)

SpecProvider == InitProvider /\ [][NextProvider]_vars

(***************************************************************************)
(* The chat screen of the receiving device.  A property the object does    *)
(* not have reads as undefined (Absent).                                   *)
(***************************************************************************)
Property(obj, name) == IF name \in DOMAIN obj THEN Some(obj[name]) ELSE Absent

DecryptionFailed == "[Decryption failed]"

\* socket.on('message'): the texts the handler can append for one event
\* (none when the sender is not the open contact or decryptMessage throws).
OnMessage(data, contactId, key) ==
    IF Property(data, "senderId") # Some(contactId)
    THEN {}
    ELSE {text[1] : text \in
             DecryptMessage(data.encryptedMessage, key) \ {Absent}}

\* loadMessages: the texts the screen can show for one record of the
\* response of GET /api/messages/:contactId.
LoadMessages(msg, userId, key) ==
    IF Property(msg, "senderId") # Some(userId)
    THEN IF Property(msg, "encryptedMessage") = Absent
         THEN {DecryptionFailed}
         ELSE {IF text = Absent THEN DecryptionFailed ELSE text[1] :
                  text \in DecryptMessage(msg.encryptedMessage, key)}
    ELSE {IF Property(msg, "plainText") = Absent
          THEN Undefined
          ELSE msg.plainText}

(***************************************************************************)
(* The ChatScreen of a logged-in client and the `message` listeners on its *)
(* socket.  chat.instance is the mounted ChatScreen (0: none), chat.contact *)
(* its route.params.contact.id, chat.messages its messages state,          *)
(* chat.listeners the handlers socket.on('message', ...) registered (the   *)
(* instance whose setMessages the handler calls and the contact.id of its  *)
(* closure; nothing ever removes one), chat.loads the loadMessages calls,  *)
(* chat.received the events that arrived on the socket.                    *)
(***************************************************************************)
ChatUser == "alice"

ChatContacts == Principals \ {ChatUser}

InitChat ==
    /\ sockets = <<>>
    /\ connectedUsers = [u \in Users |-> NoSocket]
    /\ lastHandshake = ""
    /\ sends = <<>>
    /\ messages = <<>>
    /\ emitted = <<>>
    /\ chatMessages = <<>>
    /\ clock = 0
    /\ users = RegisteredUsers
    /\ pre_keys = <<>>
    /\ signed_pre_keys = <<>>
    /\ exchanges = <<>>
    /\ historyRes = NoRequest
    /\ sessions = <<>>
    /\ registrations = <<>>
    /\ contacts = <<>>
    /\ adds = <<>>
    /\ contactsRes = NoContactsRequest
    /\ logins = <<>>
    /\ presented = JwtSign(ChatUser)
    /\ provider =
          [socket |-> 1,
           sockets |-> <<[token |-> JwtSign(ChatUser), connected |-> TRUE]>>,
           cleanup |-> NoSocket,
           calls |-> <<[ProviderCall("restore", JwtSign(ChatUser), NoSocket)
                           EXCEPT !.pc = "done"]>>]
    /\ chat = NoChat

\* The effect of ChatScreen on [contact]: loadMessages() and
\* setupSocketListeners(), which returns at once without a socket.
ChatEffect(c, instance, contactId) ==
    [c EXCEPT
       !.loads = Append(c.loads, [instance |-> instance,
                                  contactId |-> contactId,
                                  pc |-> "pending"]),
       !.listeners = IF provider.socket = NoSocket
                     THEN c.listeners
                     ELSE Append(c.listeners, [instance |-> instance,
                                               contactId |-> contactId])]

\* HomeScreen.openChat with no Chat route in the stack: a ChatScreen mounts.
OpenChat(contactId) ==
    /\ chat.instance = 0
    /\ Len(chat.loads) < MaxOpens
    /\ chat' = ChatEffect([chat EXCEPT !.instance = Len(chat.loads) + 1,
                                       !.contact = contactId,
                                       !.messages = <<>>],
                          Len(chat.loads) + 1, contactId)
    /\ UNCHANGED <<presented, provider>>
    /\ UNCHANGED <<contacts, adds, contactsRes, logins>>
    /\ UNCHANGED relayVars
    /\ UNCHANGED keyVars
    /\ UNCHANGED apiVars

\* navigate('Chat', {contact}) while the Chat route exists: the mounted
\* ChatScreen gets the new params and its effect runs again.
SwitchContact(contactId) ==
    /\ chat.instance # 0
    /\ contactId # chat.contact
    /\ Len(chat.loads) < MaxOpens
    /\ chat' = ChatEffect([chat EXCEPT !.contact = contactId],
                          chat.instance, contactId)
    /\ UNCHANGED <<presented, provider>>
    /\ UNCHANGED <<contacts, adds, contactsRes, logins>>
    /\ UNCHANGED relayVars
    /\ UNCHANGED keyVars
    /\ UNCHANGED apiVars

\* The ChatScreen unmounts (back to Home); the effect has no cleanup.
LeaveChat ==
    /\ chat.instance # 0
    /\ chat' = [chat EXCEPT !.instance = 0,
                            !.contact = Undefined,
                            !.messages = <<>>]
    /\ UNCHANGED <<presented, provider>>
    /\ UNCHANGED <<contacts, adds, contactsRes, logins>>
    /\ UNCHANGED relayVars
    /\ UNCHANGED keyVars
    /\ UNCHANGED apiVars

\* The row GET /api/messages/:contactId returns for an event that was
\* pushed: the server stored it before it pushed the event.
RowOfEvent(data) ==
    [id |-> data.id,
     sender_id |-> data.senderId,
     recipient_id |-> ChatUser,
     encrypted_message |-> JSONStringify(data.encryptedMessage),
     plain_text |-> "hi",
     timestamp |-> data.timestamp[2]]

\* The response of loadMessages arrives: setMessages(decryptedMessages) on
\* the instance that started it; nothing on !response.ok or a throw.
ChatLoadReturns(l, ok) ==
    /\ l \in 1..Len(chat.loads)
    /\ chat.loads[l].pc = "pending"
    /\ LET FromContact(data) == data.senderId = chat.loads[l].contactId
           rows == SelectSeq(chat.received, FromContact)
           returned == [chat EXCEPT !.loads[l].pc = "done"]
       IN IF ok /\ chat.loads[l].instance = chat.instance
          THEN \E texts \in [1..Len(rows) -> {DecryptionFailed, "hi", "noise",
                                               Undefined}] :
                  /\ \A r \in 1..Len(rows) :
                        texts[r] \in LoadMessages(RowOfEvent(rows[r]),
                                                  ChatUser,
                                                  EncryptionKey(ChatUser))
                  /\ chat' = [returned EXCEPT !.messages =
                         [r \in 1..Len(rows) |->
                            [id |-> rows[r].id, text |-> texts[r],
                             from |-> "history"]]]
          ELSE chat' = returned
    /\ UNCHANGED <<presented, provider>>
    /\ UNCHANGED <<contacts, adds, contactsRes, logins>>
    /\ UNCHANGED relayVars
    /\ UNCHANGED keyVars
    /\ UNCHANGED apiVars

\* A `message` event arrives on the socket: every registered handler runs,
\* and those whose contact.id is the sender decrypt and call setMessages of
\* their instance (nothing is shown for an unmounted instance).
ReceiveMessage(senderId, decrypted) ==
    /\ provider.socket # NoSocket
    /\ provider.sockets[provider.socket].connected
    /\ Len(chat.received) < MaxEvents
    /\ LET id == Len(chat.received) + 1
           data == [id |-> id,
                    senderId |-> senderId,
                    encryptedMessage |->
                        EncryptMessage("hi", EncryptionKey(senderId), id),
                    timestamp |-> <<"iso", clock>>]
           Appends(listener) ==
               /\ listener.instance = chat.instance
               /\ decrypted # Absent
               /\ decrypted[1] \in OnMessage(data, listener.contactId,
                                              EncryptionKey(ChatUser))
           handlers == SelectSeq(chat.listeners, Appends)
       IN /\ decrypted \in DecryptMessage(data.encryptedMessage,
                                          EncryptionKey(ChatUser))
          /\ chat' = [chat EXCEPT
                 !.received = Append(chat.received, data),
                 !.messages = chat.messages \o
                     [h \in 1..Len(handlers) |->
                        [id |-> id, text |-> decrypted[1], from |-> "push"]]]
    /\ UNCHANGED <<presented, provider>>
    /\ UNCHANGED <<contacts, adds, contactsRes, logins>>
    /\ UNCHANGED relayVars
    /\ UNCHANGED keyVars
    /\ UNCHANGED apiVars

NextChat ==
    \/ \E contactId \in ChatContacts : OpenChat(contactId)
    \/ \E contactId \in ChatContacts : SwitchContact(contactId)
    \/ LeaveChat
    \/ \E l \in 1..Len(chat.loads), ok \in BOOLEAN : ChatLoadReturns(l, ok)
    \/ \E senderId \in ChatContacts, decrypted \in {Absent, Some("noise")} :
           ReceiveMessage(senderId, decrypted)

SpecChat == InitChat /\ [][NextChat]_vars

(***************************************************************************)
(* Vocabulary of the properties.                                            *)
(***************************************************************************)
SenderOf(i) == sockets[sends[i].sock].userId

EventsFor(i) ==
    {k \in 1..Len(emitted) :
        emitted[k].encryptedMessage = sends[i].encryptedMessage}

RowsFor(i) ==
    {k \in 1..Len(messages) :
        messages[k].encrypted_message =
            JSONStringify(sends[i].encryptedMessage)}

PositionsIn(rows, i) ==
    {k \in 1..Len(rows) :
        rows[k].encrypted_message = JSONStringify(sends[i].encryptedMessage)}

Genuine(token) == \E u \in Users : token = [kind |-> "valid", id |-> u]

(***************************************************************************)
(* C1: the disconnect of an older connection never removes the registry    *)
(* entry of a newer connection of the same principal: an entry goes away   *)
(* only in the step that closes the very connection the entry holds.       *)
(***************************************************************************)
C1_UnregisterOnlyOwnHandle ==
    [][\A u \in Users :
          (connectedUsers[u] # NoSocket /\ connectedUsers'[u] = NoSocket)
              => /\ sockets[connectedUsers[u]].state = "open"
                 /\ sockets'[connectedUsers[u]].state = "closed"]_vars

(***************************************************************************)
(* C2: once the INSERT's callback of a persisted send has run, if the      *)
(* recipient has a connection that was opened before the sender's and is   *)
(* still open (so it was open when the send was accepted and has not been  *)
(* disconnected), a `message` event with the send's ciphertext has been    *)
(* pushed to a connection of the recipient.                                *)
(***************************************************************************)
C2_OnlineRecipientGetsEvent ==
    \A i \in 1..Len(sends) :
        (/\ sends[i].phase = "done"
         /\ \E t \in 1..(sends[i].sock - 1) :
                /\ sockets[t].userId = sends[i].recipientId
                /\ sockets[t].state = "open")
            => \E k \in EventsFor(i) :
                   sockets[emitted[k].to].userId = sends[i].recipientId

(***************************************************************************)
(* C3: every pushed `message` event has a row in the messages table with   *)
(* the same id, sender and recipient, holding the event's ciphertext (as   *)
(* the JSON text the server stores).                                        *)
(***************************************************************************)
C3_DurabilityPrecedesDelivery ==
    \A k \in 1..Len(emitted) :
        \E r \in 1..Len(messages) :
            /\ messages[r].id = emitted[k].id
            /\ messages[r].sender_id = emitted[k].senderId
            /\ messages[r].recipient_id = sockets[emitted[k].to].userId
            /\ messages[r].encrypted_message =
                   JSONStringify(emitted[k].encryptedMessage)

C3_Witness ==
    /\ Len(emitted) > 0
    /\ Len(messages) = 2

(***************************************************************************)
(* C4: a persisted send whose callback found no registry entry for the     *)
(* recipient has no `message` event, now or later, and the recipient's     *)
(* history with the sender contains its row.                               *)
(***************************************************************************)
C4_OfflineRecipientHistoryOnly ==
    \A i \in 1..Len(sends) :
        (sends[i].phase = "done" /\ sends[i].lookup = NoSocket)
            => /\ EventsFor(i) = {}
               /\ PositionsIn(History(sends[i].recipientId, SenderOf(i)), i)
                      # {}

C4_Witness ==
    \E i \in 1..Len(sends) :
        /\ sends[i].phase = "done"
        /\ sends[i].lookup = NoSocket
        /\ connectedUsers[sends[i].recipientId] # NoSocket
        /\ sockets[connectedUsers[sends[i].recipientId]].state = "open"

(***************************************************************************)
(* C5: a send whose INSERT failed is not shown to the sender as sent, has  *)
(* no `message` event and no row in the store.                             *)
(***************************************************************************)
C5_FailedSendNotShownAsSent ==
    \A i \in 1..Len(sends) :
        sends[i].phase \in {"failed", "dropped"}
            => /\ \A k \in 1..Len(chatMessages) : chatMessages[k].send # i
               /\ EventsFor(i) = {}
               /\ RowsFor(i) = {}

(***************************************************************************)
(* C6: when a registration replaces a principal's registry entry, the      *)
(* connection that was registered before is closed.                        *)
(***************************************************************************)
C6_RegisterClosesPrior ==
    [][\A u \in Users :
          (/\ connectedUsers[u] # NoSocket
           /\ connectedUsers'[u] # NoSocket
           /\ connectedUsers'[u] # connectedUsers[u])
              => /\ sockets'[connectedUsers[u]].state = "closed"
                 /\ \A t \in 1..Len(sockets') :
                        (sockets'[t].userId = u /\ sockets'[t].state = "open")
                            => t = connectedUsers'[u]]_vars

(***************************************************************************)
(* C7: every admitted socket presented a genuine, unexpired token of the   *)
(* principal it is bound to; so does every socket in the registry and      *)
(* every socket a send_message was accepted from or a row was stored for.  *)
(***************************************************************************)
C7_OnlyGenuineTokensAdmitted ==
    /\ \A s \in 1..Len(sockets) :
           /\ Genuine(sockets[s].token)
           /\ sockets[s].userId = sockets[s].token.id
    /\ \A u \in Users :
           connectedUsers[u] # NoSocket
               => /\ connectedUsers[u] \in 1..Len(sockets)
                  /\ Genuine(sockets[connectedUsers[u]].token)
    /\ \A i \in 1..Len(sends) :
           /\ sends[i].sock \in 1..Len(sockets)
           /\ Genuine(sockets[sends[i].sock].token)

C7_Witness ==
    /\ lastHandshake = "Authentication error"
    /\ \E u \in Users : connectedUsers[u] # NoSocket
    /\ Len(messages) > 0

(***************************************************************************)
(* C8: no two bundle fetches return the same one-time pre-key.             *)
(***************************************************************************)
C8_OneTimeKeyHandedOutOnce ==
    \A i, j \in 1..Len(exchanges) :
        (/\ i # j
         /\ exchanges[i].status = 200
         /\ exchanges[j].status = 200
         /\ exchanges[i].contactId = exchanges[j].contactId
         /\ exchanges[i].recipientKeys.preKeyId # Absent)
            => exchanges[i].recipientKeys.preKeyId
                   # exchanges[j].recipientKeys.preKeyId

(***************************************************************************)
(* C9: the two parties' histories are the same sequence, sorted ascending  *)
(* by (timestamp, id).                                                      *)
(***************************************************************************)
SortedByTimestampId(rows) ==
    \A a, b \in 1..Len(rows) :
        a < b => \/ rows[a].timestamp < rows[b].timestamp
                 \/ /\ rows[a].timestamp = rows[b].timestamp
                    /\ rows[a].id < rows[b].id

C9_HistorySymmetricSorted ==
    \A u, v \in Users :
        /\ History(u, v) = History(v, u)
        /\ SortedByTimestampId(History(u, v))

(***************************************************************************)
(* C10: two persisted envelopes sent one after the other on the same       *)
(* connection to the same contact are returned by history in the order     *)
(* they were sent, and when their timestamps are equal the earlier one has *)
(* the smaller id.                                                          *)
(***************************************************************************)
C10_HistoryInSendOrder ==
    \A i, j \in 1..Len(sends) :
        (/\ i < j
         /\ sends[i].sock = sends[j].sock
         /\ sends[i].recipientId = sends[j].recipientId
         /\ sends[i].phase \in {"stored", "done"}
         /\ sends[j].phase \in {"stored", "done"})
            => LET h == History(SenderOf(i), sends[i].recipientId)
               IN \A a \in PositionsIn(h, i), b \in PositionsIn(h, j) :
                      /\ a < b
                      /\ h[a].timestamp = h[b].timestamp => h[a].id < h[b].id

(***************************************************************************)
(* C11: a successful history request of principal P (the principal of the  *)
(* presented, valid token) for contact C returns every stored row whose    *)
(* (sender, recipient) is (P, C) or (C, P), each exactly once, and nothing *)
(* else: no returned row has a sender or recipient outside {P, C}.         *)
(***************************************************************************)
C11_HistoryExactlyThePair ==
    historyRes.status = 200 =>
        LET P == historyRes.token.id
            C == historyRes.contactId
            rows == historyRes.messages
            OfPair(row) ==
                \/ row.sender_id = P /\ row.recipient_id = C
                \/ row.sender_id = C /\ row.recipient_id = P
        IN /\ historyRes.token = JwtSign(P)
           /\ \A k \in 1..Len(messages) :
                  OfPair(messages[k])
                      => Cardinality({j \in 1..Len(rows) :
                                         rows[j] = messages[k]}) = 1
           /\ \A j \in 1..Len(rows) :
                  /\ \E k \in 1..Len(messages) : messages[k] = rows[j]
                  /\ OfPair(rows[j])
                  /\ {rows[j].sender_id, rows[j].recipient_id} \subseteq {P, C}

C11_Witness ==
    /\ historyRes.status = 200
    /\ \E j \in 1..Len(historyRes.messages) :
           historyRes.messages[j].sender_id = historyRes.token.id
    /\ \E j \in 1..Len(historyRes.messages) :
           historyRes.messages[j].recipient_id = historyRes.token.id
    /\ \E k \in 1..Len(messages) :
           /\ historyRes.token.id
                  \in {messages[k].sender_id, messages[k].recipient_id}
           /\ historyRes.contactId
                  \notin {messages[k].sender_id, messages[k].recipient_id}
C14_StoredRowsImmutable ==
    [][/\ Len(messages') >= Len(messages)
       /\ \A k \in 1..Len(messages) : messages'[k] = messages[k]
       /\ \A i \in 1..Len(sends) :
              (/\ sends[i].phase = "stored"
               /\ sends'[i].phase = "done"
               /\ sends'[i].lookup = NoSocket)
                  => /\ emitted' = emitted
                     /\ sockets' = sockets
                     /\ chatMessages' = chatMessages]_vars

C14_Witness ==
    /\ Len(messages) = 1
    /\ \E i \in 1..Len(sends) :
           sends[i].phase = "dropped" /\ sends[i].messageId = messages[1].id
    /\ \E i \in 1..Len(sends) :
           sends[i].phase = "done" /\ sends[i].lookup = NoSocket
(***************************************************************************)
(* C15: no row of the messages table holds the text of a message: the      *)
(* plain_text column never carries a text a client typed.                  *)
(***************************************************************************)
C15_StoreHoldsNoPlaintext ==
    \A k \in 1..Len(messages) : messages[k].plain_text \notin Texts
(***************************************************************************)
(* C16: a key request that passed authentication and validation ends with  *)
(* 404 exactly when the contact has no signed pre-key: a 200 response      *)
(* carries a signed pre-key, whether or not it carries a one-time key, and *)
(* a 404 response is given only for a contact without a signed pre-key.    *)
(***************************************************************************)
C16_NotFoundIffNoSignedPreKey ==
    \A i \in 1..Len(exchanges) :
        /\ exchanges[i].status = 200
               => /\ exchanges[i].recipientKeys.signedPreKeyId # Absent
                  /\ exchanges[i].recipientKeys.signedPreKeyPublic # Absent
        /\ exchanges[i].status = 404
               => RowsOf(signed_pre_keys, exchanges[i].contactId) = <<>>
(***************************************************************************)
(* C17: a session is reported established only with recipient keys whose   *)
(* signed pre-key carries a signature that verifies against the            *)
(* responder's identity key; a request answered 404 establishes nothing.   *)
(***************************************************************************)
SignatureVerifies(keys) ==
    /\ keys.identityKey # Absent
    /\ keys.signedPreKeyPublic # Absent
    /\ keys.signedPreKeySignature =
           Some(<<"sig", keys.identityKey[1], keys.signedPreKeyPublic[1]>>)

C17_EstablishedOnlyAfterVerification ==
    \A k \in 1..Len(sessions) :
        /\ sessions[k].state = "established"
               => SignatureVerifies(sessions[k].recipientKeys)
        /\ exchanges[sessions[k].exchange].status = 404
               => sessions[k].state # "established"
(***************************************************************************)
(* C18: once a key request has been answered 200, the bundle the initiator *)
(* sent with it has been passed on for the responder: an event carrying a  *)
(* publicKeyBundle has been pushed to a socket of the responder.           *)
(***************************************************************************)
BundleRelayed(i) ==
    \E k \in 1..Len(emitted) :
        /\ sockets[emitted[k].to].userId = exchanges[i].contactId
        /\ "publicKeyBundle" \in DOMAIN emitted[k]

C18_BundleRelayedToResponder ==
    \A i \in 1..Len(exchanges) :
        (exchanges[i].pc = "done" /\ exchanges[i].status = 200)
            => BundleRelayed(i)
(***************************************************************************)
(* C19: between two clients with an established session, every `message`   *)
(* event the server pushed decrypts on the receiving client, with that     *)
(* client's key, to the text the sender encrypted, and to nothing else.    *)
(***************************************************************************)
SessionEstablished(a, b) ==
    \E k \in 1..Len(sessions) :
        /\ sessions[k].state = "established"
        /\ sessions[k].initiator = a
        /\ sessions[k].responder = b

C19_RelayedCiphertextDecrypts ==
    \A i \in 1..Len(sends) :
        \A k \in EventsFor(i) :
            (/\ SessionEstablished(SenderOf(i), sends[i].recipientId)
             /\ SessionEstablished(sends[i].recipientId, SenderOf(i)))
                => DecryptMessage(emitted[k].encryptedMessage,
                       EncryptionKey(sockets[emitted[k].to].userId))
                       = {Some(sends[i].plainText)}
(***************************************************************************)
(* C20: no two rows of the users table have the same username; a created   *)
(* account keeps the username and password it was registered with; and a   *)
(* register request that reached the store and was refused because its     *)
(* username belongs to another account is answered Conflict ("Username     *)
(* already exists", status 400 or 409), whether the other registration     *)
(* had finished before it started or ran at the same time.                 *)
(***************************************************************************)
C20_DuplicateHandleConflict ==
    /\ \A a, b \in DOMAIN users :
           users[a].username = users[b].username => a = b
    /\ \A i \in 1..Len(registrations) :
           registrations[i].status = 200
               => /\ registrations[i].userId \in DOMAIN users
                  /\ users[registrations[i].userId].username =
                         registrations[i].username
                  /\ users[registrations[i].userId].password_hash =
                         BcryptHash(registrations[i].password)
    /\ \A i \in 1..Len(registrations) :
           (/\ registrations[i].pc = "done"
            /\ registrations[i].status # 200
            /\ registrations[i].err # "SQLITE_IOERR"
            /\ IsLength(registrations[i].username, 3, 30)
            /\ ~Missing(registrations[i].password)
            /\ Len(registrations[i].password) >= 6
            /\ UsernameTaken(registrations[i].username))
               => /\ registrations[i].status \in {400, 409}
                  /\ registrations[i].message = "Username already exists"
(***************************************************************************)
(* C21: the contacts table never holds two rows for the same (owner,       *)
(* contact), so every listing of an owner has exactly one entry per        *)
(* contact added; of the add requests of one owner for one contact at most *)
(* one is answered 200; and an add that reached the INSERT and met no I/O  *)
(* error is answered either 200 or 400 "Contact already exists", never a   *)
(* server error, whether the adds ran one after the other or interleaved.  *)
(***************************************************************************)
EdgesOf(userId, contactId) ==
    {k \in 1..Len(contacts) :
        contacts[k].user_id = userId /\ contacts[k].contact_id = contactId}

C21_DuplicateContactConflict ==
    /\ \A k \in 1..Len(contacts) :
           Cardinality(EdgesOf(contacts[k].user_id, contacts[k].contact_id))
               = 1
    /\ \A u \in Principals :
           \A listing \in ContactListings(u) :
               \A c \in Principals :
                   Cardinality({k \in 1..Len(listing) : listing[k].id = c})
                       = Cardinality(EdgesOf(u, c))
    /\ \A i, j \in 1..Len(adds) :
           (/\ i # j
            /\ adds[i].userId = adds[j].userId
            /\ adds[i].contactId = adds[j].contactId
            /\ adds[i].status = 200)
               => adds[j].status # 200
    /\ \A i \in 1..Len(adds) :
           (/\ adds[i].pc = "done"
            /\ adds[i].contactId # NoUser
            /\ adds[i].err # "SQLITE_IOERR")
               => \/ /\ adds[i].status = 200
                     /\ EdgesOf(adds[i].userId, adds[i].contactId) # {}
                  \/ /\ adds[i].status = 400
                     /\ adds[i].message = "Contact already exists"

C21_Witness ==
    \E i, j \in 1..Len(adds) :
        /\ adds[i].userId = "alice"
        /\ adds[j].userId = "alice"
        /\ adds[i].contactId = "bob"
        /\ adds[j].contactId = "bob"
        /\ adds[i].status = 200
        /\ adds[j].status = 400
        /\ adds[j].err = "SQLITE_CONSTRAINT"
        /\ Len(contacts) = 1
(***************************************************************************)
(* C22 as stated: an add request of an authenticated caller for the        *)
(* caller's own handle (in the model a principal's handle is its id) that  *)
(* met no I/O error is answered 400 "Cannot add yourself as a contact",    *)
(* whether or not the caller has a row in users; and no row of contacts    *)
(* has user_id equal to contact_id.                                         *)
(***************************************************************************)
SelfAdds ==
    {i \in 1..Len(adds) :
        /\ adds[i].pc = "done"
        /\ adds[i].userId # Undefined
        /\ adds[i].username = adds[i].userId
        /\ adds[i].err # "SQLITE_IOERR"}

NoSelfEdge ==
    \A k \in 1..Len(contacts) : contacts[k].user_id # contacts[k].contact_id

C22_SelfAddInvalidInputAlways ==
    /\ NoSelfEdge
    /\ \A i \in SelfAdds :
           /\ adds[i].status = 400
           /\ adds[i].message = "Cannot add yourself as a contact"

(***************************************************************************)
(* C22 amended: the self add is answered 400 "Cannot add yourself as a     *)
(* contact" when the caller has a row in users, and 404 "User not found"   *)
(* when it has none; no row of contacts has user_id equal to contact_id.   *)
(***************************************************************************)
C22_SelfAddInvalidInputIfRegistered ==
    /\ NoSelfEdge
    /\ \A i \in SelfAdds :
           IF adds[i].userId \in DOMAIN users
           THEN /\ adds[i].status = 400
                /\ adds[i].message = "Cannot add yourself as a contact"
           ELSE /\ adds[i].status = 404
                /\ adds[i].message = "User not found"

C22_Witness ==
    /\ \E i \in SelfAdds : adds[i].userId \in DOMAIN users
    /\ \E i \in SelfAdds : adds[i].userId \notin DOMAIN users
(***************************************************************************)
(* C23: a step in which an add request is answered 200 appends exactly one *)
(* row, the edge (caller, contact) of that request, keeps every older row, *)
(* and leaves the listing of every principal but the caller as it was; any *)
(* other step, a refused add included, leaves the contacts table as it     *)
(* was.                                                                     *)
(***************************************************************************)
C23_AddTouchesOnlyOwnEdge ==
    [][LET Added == {i \in 1..Len(adds) :
                        adds[i].pc = "insert" /\ adds'[i].status = 200}
       IN IF Added = {}
          THEN contacts' = contacts
          ELSE \A i \in Added :
                   /\ Len(contacts') = Len(contacts) + 1
                   /\ \A k \in 1..Len(contacts) : contacts'[k] = contacts[k]
                   /\ contacts'[Len(contacts')].user_id = adds[i].userId
                   /\ contacts'[Len(contacts')].contact_id = adds[i].contactId
                   /\ \A u \in (Principals \cup {"mallory"}) \ {adds[i].userId} :
                          ContactsJoinUsers(u)' = ContactsJoinUsers(u)]_vars

C23_Witness ==
    /\ EdgesOf("alice", "bob") # {}
    /\ EdgesOf("bob", "alice") = {}
    /\ EdgesOf("bob", "carol") # {}
    /\ contactsRes.status = 200
    /\ contactsRes.userId = "bob"
    /\ Len(contactsRes.contacts) = 1
(***************************************************************************)
(* C24: a 200 response of GET /api/contacts lists the caller's contacts in *)
(* the order their edges were inserted: of two listed contacts the one     *)
(* listed first has the older row in the contacts table.                   *)
(***************************************************************************)
EdgeRow(userId, contactId) ==
    CHOOSE k \in 1..Len(contacts) :
        contacts[k].user_id = userId /\ contacts[k].contact_id = contactId

C24_ListingInInsertionOrder ==
    contactsRes.status = 200 =>
        \A a, b \in 1..Len(contactsRes.contacts) :
            a < b =>
                EdgeRow(contactsRes.userId, contactsRes.contacts[a].id)
                    < EdgeRow(contactsRes.userId, contactsRes.contacts[b].id)
(***************************************************************************)
(* C25: whatever a client holding a forged or an expired token gets back   *)
(* is the same for the two: every HTTP request is answered 403 "Invalid    *)
(* token" with no data, every handshake is refused with "Authentication    *)
(* error" and admits no socket; as functions of the token, the HTTP check  *)
(* and the handshake check give equal results for any forged and any       *)
(* expired token.                                                           *)
(***************************************************************************)
C25_ExpiredAndForgedAlike ==
    /\ \A u, v \in Users :
           /\ AuthenticateToken([kind |-> "forged", id |-> u])
                  = AuthenticateToken([kind |-> "expired", id |-> v])
           /\ IoUse([kind |-> "forged", id |-> u])
                  = IoUse([kind |-> "expired", id |-> v])
    /\ presented.kind \in {"forged", "expired"}
           => /\ sockets = <<>>
              /\ lastHandshake \in {"", "Authentication error"}
              /\ historyRes # NoRequest
                     => /\ historyRes.status = 403
                        /\ historyRes.message = "Invalid token"
                        /\ historyRes.messages = <<>>
              /\ contactsRes # NoContactsRequest
                     => contactsRes =
                            [userId |-> Undefined, status |-> 403,
                             message |-> "Invalid token", contacts |-> <<>>]

C25_Witness ==
    /\ presented.kind = "expired"
    /\ lastHandshake = "Authentication error"
    /\ historyRes.status = 403
    /\ contactsRes.status = 403
(***************************************************************************)
(* C26: registering and then logging in with the same handle and secret    *)
(* succeeds and returns a token that verifies to the principal id created  *)
(* by the registration; logging in with a wrong secret or with a handle    *)
(* nobody holds fails with 401 'Invalid credentials'.                      *)
(***************************************************************************)
CredentialsOf(username, password) ==
    {id \in DOMAIN users :
        /\ users[id].username = username
        /\ users[id].password_hash = BcryptHash(password)}

C26_RegisterThenLogin ==
    /\ [](\A r \in 1..Len(registrations) :
            registrations[r].status = 200 =>
               /\ CredentialsOf(registrations[r].username,
                                registrations[r].password)
                     = {registrations[r].userId}
               /\ \A l \in 1..Len(logins) :
                     (/\ logins[l].status = 200
                      /\ logins[l].username = registrations[r].username)
                     => /\ logins[l].password = registrations[r].password
                        /\ logins[l].userId = registrations[r].userId
                        /\ AuthenticateToken(logins[l].token).status = 200
                        /\ AuthenticateToken(logins[l].token).user
                              = registrations[r].userId)
    /\ [][\A l \in 1..Len(logins) :
            (/\ logins[l].pc = "select"
             /\ l \in 1..Len(logins')
             /\ logins'[l].pc = "done"
             /\ logins'[l].err = "")
            => IF CredentialsOf(logins[l].username, logins[l].password) = {}
               THEN /\ logins'[l].status = 401
                    /\ logins'[l].message = "Invalid credentials"
                    /\ logins'[l].token = NoToken
               ELSE /\ logins'[l].status = 200
                    /\ logins'[l].userId
                          \in CredentialsOf(logins[l].username,
                                            logins[l].password)
                    /\ AuthenticateToken(logins'[l].token).user
                          = logins'[l].userId]_vars

C26_Witness ==
    /\ \E r \in 1..Len(registrations), l \in 1..Len(logins) :
          /\ registrations[r].status = 200
          /\ logins[l].status = 200
          /\ logins[l].username = registrations[r].username
          /\ logins[l].userId = registrations[r].userId

(***************************************************************************)
(* C27: register answers 400 and creates no users row when the handle     *)
(* length is outside [3,30] or the secret is shorter than 6, and it does   *)
(* not answer with a validation failure at the boundary values (handle     *)
(* length 3 and 30, secret length 6).                                      *)
(***************************************************************************)
ValidationMessages ==
    {"Username and password required",
     "Username must be 3-30 characters",
     "Password must be at least 6 characters"}

InvalidInput(username, password) ==
    \/ Missing(username)
    \/ Missing(password)
    \/ Len(username) \notin 3..30
    \/ Len(password) < 6

C27_RegisterValidationBoundaries ==
    /\ [](\A r \in 1..Len(registrations) :
            IF InvalidInput(registrations[r].username,
                            registrations[r].password)
            THEN /\ registrations[r].pc = "done"
                 /\ registrations[r].status = 400
                 /\ registrations[r].message \in ValidationMessages
                 /\ registrations[r].userId = Undefined
                 /\ registrations[r].token = NoToken
            ELSE registrations[r].message \notin ValidationMessages)
    /\ [][\A r \in 1..Len(registrations') :
            (/\ r > Len(registrations)
             /\ InvalidInput(registrations'[r].username,
                             registrations'[r].password))
            => users' = users]_vars

C27_Witness ==
    /\ \E r \in 1..Len(registrations) :
          /\ Len(registrations[r].username) = 30
          /\ Len(registrations[r].password) = 6
          /\ registrations[r].status = 200
    /\ \E r \in 1..Len(registrations) :
          /\ Len(registrations[r].username) = 3
          /\ Len(registrations[r].password) = 5
          /\ registrations[r].status = 400
          /\ registrations[r].message
                = "Password must be at least 6 characters"

(***************************************************************************)
(* C28: connectedUsers holds at most one socket per user, and every entry  *)
(* is a socket that is open and that was admitted with a token verifying   *)
(* to exactly the user it is stored under.                                 *)
(***************************************************************************)
C28_RegistryEntriesOpenAndOwn ==
    /\ connectedUsers \in [Users -> {NoSocket} \cup (1..Len(sockets))]
    /\ \A u \in Users :
          connectedUsers[u] # NoSocket =>
             LET socket == sockets[connectedUsers[u]] IN
             /\ socket.state = "open"
             /\ socket.userId = u
             /\ IoUse(socket.token).ok
             /\ IoUse(socket.token).userId = u

C28_Witness ==
    /\ \E u \in Users :
          /\ connectedUsers[u] # NoSocket
          /\ \E s \in 1..Len(sockets) :
                /\ s # connectedUsers[u]
                /\ sockets[s].userId = u
                /\ sockets[s].state = "closed"
    /\ \E u \in Users :
          /\ connectedUsers[u] = NoSocket
          /\ \E s \in 1..Len(sockets) :
                /\ sockets[s].userId = u
                /\ sockets[s].state = "closed"

(***************************************************************************)
(* C29: the sender_id of every stored row and the senderId of every pushed *)
(* `message` event is the user the sending socket's handshake token        *)
(* verified to; nothing in the data of `send_message` sets it.             *)
(***************************************************************************)
VerifiedAtHandshake(i) == IoUse(sockets[sends[i].sock].token)

C29_SenderIsHandshakePrincipal ==
    /\ \A k \in 1..Len(messages) :
          \E i \in 1..Len(sends) :
             /\ k \in RowsFor(i)
             /\ VerifiedAtHandshake(i).ok
             /\ messages[k].sender_id = VerifiedAtHandshake(i).userId
    /\ \A k \in 1..Len(emitted) :
          \E i \in 1..Len(sends) :
             /\ k \in EventsFor(i)
             /\ VerifiedAtHandshake(i).ok
             /\ emitted[k].senderId = VerifiedAtHandshake(i).userId
    /\ \A i \in 1..Len(sends) :
          /\ \A k \in RowsFor(i) :
                messages[k].sender_id = VerifiedAtHandshake(i).userId
          /\ \A k \in EventsFor(i) :
                emitted[k].senderId = VerifiedAtHandshake(i).userId

C29_Witness ==
    \E i \in 1..Len(sends) :
       /\ RowsFor(i) # {}
       /\ EventsFor(i) # {}
       /\ sends[i].recipientId # VerifiedAtHandshake(i).userId
       /\ sockets[sends[i].sock].state = "closed"

(***************************************************************************)
(* C30: for every `message` event that was pushed, the record history      *)
(* returns to the same user for the same id carries the same senderId,     *)
(* ciphertext and timestamp under the event's field names, and the chat    *)
(* screen shows the same text for the record as for the event.             *)
(***************************************************************************)
C30_PushAndHistoryAgree ==
    \A k \in 1..Len(emitted) :
       LET data == emitted[k]
           userId == sockets[data.to].userId
           rows == History(userId, data.senderId)
       IN \A r \in 1..Len(rows) :
             rows[r].id = data.id =>
                /\ Property(rows[r], "senderId") = Some(data.senderId)
                /\ Property(rows[r], "encryptedMessage")
                      = Some(data.encryptedMessage)
                /\ Property(rows[r], "timestamp") = Some(data.timestamp)
                /\ LoadMessages(rows[r], userId, EncryptionKey(userId))
                      = OnMessage(data, data.senderId, EncryptionKey(userId))

(***************************************************************************)
(* C31: the plaintext copy of a message (plain_text / plainText) is given  *)
(* to its sender only: no pushed `message` event carries it, and no        *)
(* history response carries it in a row whose sender is not the user the   *)
(* response goes to.                                                        *)
(***************************************************************************)
CarriesPlaintext(obj) ==
    \/ Property(obj, "plainText") \notin {Absent, Some(Absent)}
    \/ Property(obj, "plain_text") \notin {Absent, Some(Absent)}

C31_PlaintextEchoOnlyToSender ==
    /\ \A k \in 1..Len(emitted) : ~CarriesPlaintext(emitted[k])
    /\ \A userId \in Users, contactId \in Users :
          LET rows == History(userId, contactId)
          IN \A r \in 1..Len(rows) :
                CarriesPlaintext(rows[r]) => rows[r].sender_id = userId

(***************************************************************************)
(* C32: the AuthProvider has at most one connected socket at a time, that  *)
(* socket is the one in its socket state and was opened with the current   *)
(* token; so once the token is null or has changed, no socket opened with  *)
(* the old token is still connected.                                        *)
(***************************************************************************)
OpenClientSockets ==
    {s \in 1..Len(provider.sockets) : provider.sockets[s].connected}

C32_OneSocketOfCurrentToken ==
    /\ Cardinality(OpenClientSockets) <= 1
    /\ \A s \in OpenClientSockets :
          /\ provider.socket = s
          /\ provider.sockets[s].token = presented

(***************************************************************************)
(* C33: a `message` event that arrives on the socket is appended to the    *)
(* displayed conversation at most once, and only while the conversation    *)
(* displayed is the one with the event's sender, whatever chats were       *)
(* opened, left or switched before on the same socket.                     *)
(***************************************************************************)
C33_EventAppendedOnceToItsChat ==
    [][Len(chat'.received) > Len(chat.received) =>
          LET data == chat'.received[Len(chat'.received)]
              appended == Len(chat'.messages) - Len(chat.messages)
          IN /\ appended <= 1
             /\ appended >= 1 => data.senderId = chat.contact]_vars

====
